---- MODULE Spec2Model ----
(***************************************************************************)
(* Model of app.py ("Roast My Strava"): one Streamlit script run after     *)
(* another.  A run validates the configuration, obtains a bearer token     *)
(* from the token file (exchanging the one-time code or refreshing when    *)
(* needed), fetches the athlete profile and the activities, builds the     *)
(* prompt, asks the completion API for a roast and presents the result.    *)
(*                                                                         *)
(* Python values that may be None are tagged records: None, or a record    *)
(* whose type field names the Python type.  Text that the script builds    *)
(* line by line (the prompt) is the sequence of its lines.                 *)
(***************************************************************************)
EXTENDS Integers, Sequences, FiniteSets, TLC

\* ---- bounds of the model ------------------------------------------------
MaxTime == 2         \* the clock runs over 0..MaxTime
MaxActivities == 1   \* activities in a response of the activities endpoint
MaxKeys == 1         \* keys present in a response of the profile endpoint
Slack == 1           \* description lengths around max_description_length

VARIABLES
    env,           \* the configuration values that are set (os.getenv is truthy)
    file,          \* TOKEN_FILE on disk: [exists, content]
    now,           \* the wall clock, time.time()
    issued,        \* token endpoint: how many token records it has issued
    pc,            \* position of the current run
    frame,         \* the function that called save_tokens
    tokens,        \* get_access_token: tokens
    current_time,  \* get_access_token: current_time
    access_token,  \* main: access_token
    athlete,       \* main: athlete
    activities,    \* main: activities
    prompt,        \* main: prompt, as the sequence of its lines
    roast,         \* main: roast
    calls,         \* the network calls of this run, in order, with their responses
    fileOps,       \* the token-file accesses of this run, in order
    shown,         \* what this run has put on the page, in order
    fileAtStart    \* the token file as it was when this run began

vars == <<env, file, now, issued, pc, frame, tokens, current_time,
          access_token, athlete, activities, prompt, roast, calls, fileOps,
          shown, fileAtStart>>

\* ---- Python values ------------------------------------------------------
None == [type |-> "None"]
Str(s) == [type |-> "str", s |-> s]
Num(i) == [type |-> "int", i |-> i]
Dict(d) == [type |-> "dict", d |-> d]
Lines(l) == [type |-> "lines", l |-> l]

TokenDict(a, r, e) ==
    [type |-> "dict", access_token |-> a, refresh_token |-> r, expires_at |-> e]

\* dict.get(key, default)
Get(d, key, default) == IF key \in DOMAIN d THEN d[key] ELSE default

\* ---- configuration ------------------------------------------------------
ConfigKeys == {"STRAVA_CLIENT_ID", "STRAVA_CLIENT_SECRET",
               "STRAVA_AUTHORIZATION_CODE", "OPENAI_API_KEY"}

\* the validation without the completion-API key
CredentialsSetNoOpenAI(e) ==
    /\ "STRAVA_CLIENT_ID" \in e
    /\ "STRAVA_CLIENT_SECRET" \in e
    /\ "STRAVA_AUTHORIZATION_CODE" \in e

\* line 23: not (not CLIENT_ID or not CLIENT_SECRET or not AUTHORIZATION_CODE
\* or not OPENAI_API_KEY)
CredentialsSet(e) ==
    /\ "STRAVA_CLIENT_ID" \in e
    /\ "STRAVA_CLIENT_SECRET" \in e
    /\ "STRAVA_AUTHORIZATION_CODE" \in e
    /\ "OPENAI_API_KEY" \in e

\* ---- the token file -----------------------------------------------------
\* json.dump(tokens, f): the chunks written to the file, in order
JsonDump(t) ==
    << [k |-> "{", v |-> 0],
       [k |-> "access_token", v |-> t.access_token],
       [k |-> "refresh_token", v |-> t.refresh_token],
       [k |-> "expires_at", v |-> t.expires_at],
       [k |-> "}", v |-> 0] >>

\* json.load succeeds only on a complete document
JsonValid(content) ==
    /\ Len(content) = 5
    /\ content[1].k = "{"
    /\ content[2].k = "access_token"
    /\ content[3].k = "refresh_token"
    /\ content[4].k = "expires_at"
    /\ content[5].k = "}"

JsonLoad(content) == TokenDict(content[2].v, content[3].v, content[4].v)

\* the token file never found: every run exchanges the code
TokenFilePresentNever(f) == FALSE

\* os.path.exists(TOKEN_FILE), line 37
TokenFilePresent(f) == f.exists

NoFile == [exists |-> FALSE, content |-> <<>>]
FileOf(t) == [exists |-> TRUE, content |-> JsonDump(t)]

\* the token file an earlier run has left: a record in full, or the part
\* of it that was written when save_tokens was cut short
StoredFiles ==
    {[exists |-> TRUE, content |-> SubSeq(JsonDump(TokenDict(0, 0, e)), 1, n)] :
        e \in 0..MaxTime, n \in 0..5}

\* ---- responses of the external services ---------------------------------
\* the non-success responses: status_code and text
ErrorResponses ==
    {[status_code |-> 401, text |-> "Authorization Error"],
     [status_code |-> 429, text |-> "Rate Limit Exceeded"]}

\* a call: what was sent (the code, the refresh token, the bearer token or
\* the prompt) and the response (status_code, json on success, text on
\* error); a call that raised has status_code 0 and the exception's text
Call(endpoint, grant, sent, status, json, text) ==
    [endpoint |-> endpoint, grant_type |-> grant, sent |-> sent,
     status_code |-> status, json |-> json, text |-> text]

IsToken(c) == c.endpoint = "oauth/token"
IsExchange(c) == IsToken(c) /\ c.grant_type = "authorization_code"
IsRefresh(c) == IsToken(c) /\ c.grant_type = "refresh_token"

Error(text) == [kind |-> "error", text |-> text]
Write(text) == [kind |-> "write", text |-> text]
Title(text) == [kind |-> "title", text |-> text]
Subheader(text) == [kind |-> "subheader", text |-> text]

Terminal == {"done", "stopped", "raised", "killed"}

\* ---- the state after construction ---------------------------------------
\* the variables of a script run before its first statement
RunVars ==
    [pc |-> "start", frame |-> "", tokens |-> None, current_time |-> None,
     access_token |-> None, athlete |-> None, activities |-> <<>>,
     prompt |-> None, roast |-> None, calls |-> <<>>, fileOps |-> <<>>,
     shown |-> <<>>]

Init ==
    /\ env \in SUBSET ConfigKeys
    /\ file \in {NoFile} \cup StoredFiles
    /\ now = 0
    /\ issued = 0
    /\ fileAtStart = file
    /\ pc = RunVars.pc
    /\ frame = RunVars.frame
    /\ tokens = RunVars.tokens
    /\ current_time = RunVars.current_time
    /\ access_token = RunVars.access_token
    /\ athlete = RunVars.athlete
    /\ activities = RunVars.activities
    /\ prompt = RunVars.prompt
    /\ roast = RunVars.roast
    /\ calls = RunVars.calls
    /\ fileOps = RunVars.fileOps
    /\ shown = RunVars.shown

\* ---- module level: credential validation (lines 17-28) ------------------
Validate ==
    /\ pc = "start"
    /\ IF CredentialsSet(env)
         THEN /\ pc' = "main"
              /\ shown' = shown
         ELSE /\ shown' = Append(shown,
                     Error("Please ensure all credentials are set in the .env file."))
              /\ pc' = "stopped"
    /\ UNCHANGED <<env, file, now, issued, frame, tokens, current_time,
                   access_token, athlete, activities, prompt, roast, calls,
                   fileOps, fileAtStart>>

\* ---- main, up to the call of get_access_token (lines 211-216) -----------
MainStart ==
    /\ pc = "main"
    /\ shown' = shown \o
         << Title("Roast My Strava"),
            Write("This app fetches your Strava bio and recent activities to provide an AI-generated roast.") >>
    /\ pc' = "get_access_token"
    /\ UNCHANGED <<env, file, now, issued, frame, tokens, current_time,
                   access_token, athlete, activities, prompt, roast, calls,
                   fileOps, fileAtStart>>

\* ---- get_access_token: the token file, or the code exchange (lines 37-44,
\* with exchange_authorization_code, lines 55-72) --------------------------
LoadTokens ==
    /\ pc = "get_access_token"
    /\ TokenFilePresent(file)
    /\ fileOps' = fileOps \o <<"exists", "read">>
    /\ IF JsonValid(file.content)
         THEN /\ tokens' = JsonLoad(file.content)
              /\ pc' = "check_expiry"
         ELSE /\ tokens' = tokens
              /\ pc' = "raised"
    /\ UNCHANGED <<env, file, now, issued, frame, current_time,
                   access_token, athlete, activities, prompt, roast, calls,
                   shown, fileAtStart>>

ExchangeOk ==
    /\ pc = "get_access_token"
    /\ ~TokenFilePresent(file)
    /\ \E e \in 0..MaxTime :
         LET t == TokenDict(issued + 1, issued + 1, e) IN
         /\ calls' = Append(calls, Call("oauth/token", "authorization_code",
                                   Str("AUTHORIZATION_CODE"), 200, t, ""))
         /\ tokens' = t
    /\ issued' = issued + 1
    /\ fileOps' = Append(fileOps, "exists")
    /\ frame' = "exchange_authorization_code"
    /\ pc' = "save_open"
    /\ UNCHANGED <<env, file, now, current_time, access_token, athlete,
                   activities, prompt, roast, shown, fileAtStart>>

ExchangeFail ==
    /\ pc = "get_access_token"
    /\ ~TokenFilePresent(file)
    /\ \E r \in ErrorResponses :
         /\ calls' = Append(calls, Call("oauth/token", "authorization_code",
                                   Str("AUTHORIZATION_CODE"), r.status_code, None, r.text))
         /\ shown' = shown \o
              << Error("Error exchanging authorization code: " \o r.text),
                 Error("Failed to obtain tokens.") >>
    /\ fileOps' = Append(fileOps, "exists")
    /\ tokens' = None
    /\ pc' = "stopped"
    /\ UNCHANGED <<env, file, now, issued, frame, current_time,
                   access_token, athlete, activities, prompt, roast, fileAtStart>>

\* ---- save_tokens (lines 93-95) ------------------------------------------
\* open(TOKEN_FILE, 'w') creates or truncates the file
SaveOpen ==
    /\ pc = "save_open"
    /\ file' = [exists |-> TRUE, content |-> <<>>]
    /\ fileOps' = Append(fileOps, "write")
    /\ pc' = "save_dump"
    /\ UNCHANGED <<env, now, issued, frame, tokens, current_time,
                   access_token, athlete, activities, prompt, roast, calls,
                   shown, fileAtStart>>

\* what get_access_token does when the function that saved returns tokens
AfterSave(f) ==
    IF f = "exchange_authorization_code"
      THEN /\ pc' = "check_expiry"
           /\ access_token' = access_token
      ELSE /\ pc' = "get_athlete_profile"
           /\ access_token' = Num(tokens.access_token)

\* json.dump writes the document chunk by chunk; the with block closes the
\* file after the last chunk and the caller returns tokens
SaveDump ==
    /\ pc = "save_dump"
    /\ LET doc == JsonDump(tokens)
           n == Len(file.content) + 1
       IN /\ file' = [file EXCEPT !.content = Append(@, doc[n])]
          /\ IF n = Len(doc)
               THEN /\ AfterSave(frame)
                    /\ frame' = ""
               ELSE /\ pc' = pc
                    /\ frame' = frame
                    /\ access_token' = access_token
    /\ UNCHANGED <<env, now, issued, tokens, current_time, athlete,
                   activities, prompt, roast, calls, fileOps, shown, fileAtStart>>

\* ---- get_access_token: the expiry check (lines 46-53) -------------------
\* the comparison off by one: a record that expired one tick ago passes
IsExpiredOffByOne(t, time) == t.expires_at + 1 < time

IsExpired(t, time) == t.expires_at < time

CheckExpiry ==
    /\ pc = "check_expiry"
    /\ current_time' = Num(now)
    /\ IF IsExpired(tokens, now)
         THEN /\ pc' = "refresh_access_token"
              /\ access_token' = access_token
         ELSE /\ pc' = "get_athlete_profile"
              /\ access_token' = Num(tokens.access_token)
    /\ UNCHANGED <<env, file, now, issued, frame, tokens, athlete,
                   activities, prompt, roast, calls, fileOps, shown, fileAtStart>>

\* ---- refresh_access_token (lines 74-91, with lines 48-51) ---------------
RefreshOk ==
    /\ pc = "refresh_access_token"
    /\ \E e \in 0..MaxTime :
         LET t == TokenDict(issued + 1, issued + 1, e) IN
         /\ calls' = Append(calls, Call("oauth/token", "refresh_token",
                                   Num(tokens.refresh_token), 200, t, ""))
         /\ tokens' = t
    /\ issued' = issued + 1
    /\ frame' = "refresh_access_token"
    /\ pc' = "save_open"
    /\ UNCHANGED <<env, file, now, current_time, access_token, athlete,
                   activities, prompt, roast, fileOps, shown, fileAtStart>>

\* the refresh failure swallowed: the error is shown and the stale
\* access_token is returned instead of stopping
RefreshFailKeepsOld ==
    /\ pc = "refresh_access_token"
    /\ \E r \in ErrorResponses :
         /\ calls' = Append(calls, Call("oauth/token", "refresh_token",
                                   Num(tokens.refresh_token), r.status_code, None, r.text))
         /\ shown' = Append(shown, Error("Error refreshing access token: " \o r.text))
    /\ access_token' = Num(tokens.access_token)
    /\ pc' = "get_athlete_profile"
    /\ UNCHANGED <<env, file, now, issued, frame, tokens, current_time,
                   athlete, activities, prompt, roast, fileOps, fileAtStart>>

RefreshFail ==
    /\ pc = "refresh_access_token"
    /\ \E r \in ErrorResponses :
         /\ calls' = Append(calls, Call("oauth/token", "refresh_token",
                                   Num(tokens.refresh_token), r.status_code, None, r.text))
         /\ shown' = shown \o
              << Error("Error refreshing access token: " \o r.text),
                 Error("Failed to refresh tokens.") >>
    /\ tokens' = None
    /\ pc' = "stopped"
    /\ UNCHANGED <<env, file, now, issued, frame, current_time,
                   access_token, athlete, activities, prompt, roast, fileOps,
                   fileAtStart>>

\* ---- the inputs the model draws -----------------------------------------
AthleteKeys == {"id", "firstname", "lastname", "bio", "city", "country", "sex"}
OptionalFields == AthleteKeys \ {"id"}

AthleteValue ==
    [id |-> "1001", firstname |-> "Sam", lastname |-> "Lee",
     bio |-> "Runs on coffee.", city |-> "Oslo", country |-> "Norway", sex |-> "F"]

\* responses of the profile endpoint: the empty object, objects with few
\* keys (with "id" alone every optional field is absent), the full object
Profiles ==
    {[k \in K |-> AthleteValue[k]] :
        K \in {S \in SUBSET AthleteKeys : Cardinality(S) <= MaxKeys \/ S = AthleteKeys}}

Alphabet == "abcdefghij"

RECURSIVE Repeat(_, _)
Repeat(s, n) == IF n = 0 THEN "" ELSE Repeat(s, n - 1) \o s

\* a text of n characters, position i holding letter ((i - 1) % 10) + 1
Text(n) == Repeat(Alphabet, n \div 10) \o SubSeq(Alphabet, 1, n % 10)

DescLens == {0} \cup ((200 - Slack) .. (200 + Slack))
Descriptions == {Text(n) : n \in DescLens}

\* an activity carries its id and name and, optionally, a description; the
\* other optional fields (type, distance, moving_time, average_speed,
\* total_elevation_gain, start_date_local) are absent from the drawn records
ActivityRecords ==
    {[k \in {"id", "name"} |-> IF k = "id" THEN "77" ELSE "Morning Run"]}
    \cup {[k \in {"id", "name", "description"} |->
             IF k = "id" THEN "77" ELSE IF k = "name" THEN "Morning Run" ELSE d] :
          d \in Descriptions}

ActivityLists == UNION {[1..n -> ActivityRecords] : n \in 0..MaxActivities}

Completions == {"Nice jog, Sam."}
Exceptions == {"Connection error.", "Rate limit reached"}

\* an emptiness test that lets the empty list through
TruthyListAlways(l) == TRUE

\* Python truthiness of main's athlete (None or a dict) and activities (a list)
TruthyDict(v) == v # None /\ DOMAIN v.d # {}
TruthyList(l) == Len(l) > 0

\* ---- get_athlete_profile (lines 101-112, with lines 219-221, 272-273) ---
GetAthleteProfileOk ==
    /\ pc = "get_athlete_profile"
    /\ \E p \in Profiles :
         /\ calls' = Append(calls, Call("athlete", "", access_token, 200, Dict(p), ""))
         /\ athlete' = Dict(p)
    /\ IF TruthyDict(athlete')
         THEN /\ pc' = "get_activities"
              /\ shown' = shown
         ELSE /\ shown' = Append(shown, Write("Could not retrieve athlete profile."))
              /\ pc' = "done"
    /\ UNCHANGED <<env, file, now, issued, frame, tokens, current_time,
                   access_token, activities, prompt, roast, fileOps, fileAtStart>>

\* the profile failure made fatal: the error is shown and the run stops
GetAthleteProfileFailStops ==
    /\ pc = "get_athlete_profile"
    /\ \E r \in ErrorResponses :
         /\ calls' = Append(calls, Call("athlete", "", access_token, r.status_code, None, r.text))
         /\ shown' = Append(shown, Error("Error fetching athlete profile: " \o r.text))
    /\ athlete' = None
    /\ pc' = "stopped"
    /\ UNCHANGED <<env, file, now, issued, frame, tokens, current_time,
                   access_token, activities, prompt, roast, fileOps, fileAtStart>>

GetAthleteProfileFail ==
    /\ pc = "get_athlete_profile"
    /\ \E r \in ErrorResponses :
         /\ calls' = Append(calls, Call("athlete", "", access_token, r.status_code, None, r.text))
         /\ shown' = shown \o
              << Error("Error fetching athlete profile: " \o r.text),
                 Write("Could not retrieve athlete profile.") >>
    /\ athlete' = None
    /\ pc' = "done"
    /\ UNCHANGED <<env, file, now, issued, frame, tokens, current_time,
                   access_token, activities, prompt, roast, fileOps, fileAtStart>>

\* ---- get_activities (lines 114-126, with lines 223-225, 270-271) --------
GetActivitiesOk ==
    /\ pc = "get_activities"
    /\ \E l \in ActivityLists :
         /\ calls' = Append(calls, Call("athlete/activities", "", access_token, 200,
                                        [type |-> "list", l |-> l], ""))
         /\ activities' = l
    /\ IF TruthyList(activities')
         THEN /\ pc' = "construct_prompt"
              /\ shown' = shown
         ELSE /\ shown' = Append(shown, Write("No activities found."))
              /\ pc' = "done"
    /\ UNCHANGED <<env, file, now, issued, frame, tokens, current_time,
                   access_token, athlete, prompt, roast, fileOps, fileAtStart>>

GetActivitiesFail ==
    /\ pc = "get_activities"
    /\ \E r \in ErrorResponses :
         /\ calls' = Append(calls, Call("athlete/activities", "", access_token, r.status_code, None, r.text))
         /\ shown' = shown \o
              << Error("Error fetching activities: " \o r.text),
                 Write("No activities found.") >>
    /\ activities' = <<>>
    /\ pc' = "done"
    /\ UNCHANGED <<env, file, now, issued, frame, tokens, current_time,
                   access_token, athlete, prompt, roast, fileOps, fileAtStart>>

\* ---- construct_prompt (lines 132-184) -----------------------------------
\* lines 134-139: the bio fields as the prompt renders them
PromptBio(a) ==
    [first_name |-> Get(a, "firstname", "Athlete"),
     last_name |-> Get(a, "lastname", ""),
     bio |-> Get(a, "bio", "No bio available."),
     city |-> Get(a, "city", "Unknown city"),
     country |-> Get(a, "country", "Unknown country"),
     sex |-> Get(a, "sex", "Not specified")]

\* lines 163-167: the description as the prompt renders it
PromptDescription(activity) ==
    LET description == Get(activity, "description", "No description provided.")
        max_description_length == 200
    IN IF Len(description) > max_description_length
         THEN SubSeq(description, 1, max_description_length) \o "..."
         ELSE description

\* lines 169-179: the block of activity idx (absent numeric fields read 0)
PromptActivity(idx, activity) ==
    << "",
       "Activity " \o ToString(idx) \o ":",
       "- Name: " \o Get(activity, "name", "Unnamed Activity"),
       "- Date: " \o Get(activity, "start_date_local", "Unknown Date"),
       "- Type: " \o Get(activity, "type", "Unknown"),
       "- Distance: 0.00 km",
       "- Moving Time: 0.0 minutes",
       "- Average Speed: 0.00 km/h",
       "- Elevation Gain: 0.00 m",
       "- Description: " \o PromptDescription(activity) >>

RECURSIVE PromptActivities(_, _)
PromptActivities(acts, n) ==
    IF n = 0 THEN <<>>
    ELSE PromptActivities(acts, n - 1) \o PromptActivity(n, acts[n])

construct_prompt(a, acts) ==
    LET b == PromptBio(a) IN
    << "",
       "You are a sarcastic fitness coach. Create a humorous and witty roast for "
          \o b.first_name \o " " \o b.last_name
          \o " based on their bio and recent activities.",
       "",
       "Bio:",
       "- Name: " \o b.first_name \o " " \o b.last_name,
       "- Gender: " \o b.sex,
       "- Location: " \o b.city \o ", " \o b.country,
       "- Bio Description: " \o b.bio,
       "",
       "Recent Activities:" >>
    \o PromptActivities(acts, Len(acts))
    \o << "",
          "Be creative, but keep it friendly and avoid offensive language. The roast should be in three paragraphs, each focusing on different aspects of the bio and activities." >>

ConstructPrompt ==
    /\ pc = "construct_prompt"
    /\ prompt' = Lines(construct_prompt(athlete.d, activities))
    /\ pc' = "generate_roast"
    /\ UNCHANGED <<env, file, now, issued, frame, tokens, current_time,
                   access_token, athlete, activities, roast, calls, fileOps,
                   shown, fileAtStart>>

\* ---- generate_roast (lines 190-205) -------------------------------------
\* the except branch returning the bare error detail
ErrorRoastBare(e) == e

\* line 205: the except branch's return value
ErrorRoast(e) == "Error generating roast: " \o e

GenerateRoastOk ==
    /\ pc = "generate_roast"
    /\ \E text \in Completions :
         /\ calls' = Append(calls, Call("chat/completions", "", prompt, 200, Str(text), ""))
         /\ roast' = Str(text)
    /\ pc' = "present"
    /\ UNCHANGED <<env, file, now, issued, frame, tokens, current_time,
                   access_token, athlete, activities, prompt, fileOps, shown,
                   fileAtStart>>

GenerateRoastRaise ==
    /\ pc = "generate_roast"
    /\ \E e \in Exceptions :
         /\ calls' = Append(calls, Call("chat/completions", "", prompt, 0, None, e))
         /\ roast' = Str(ErrorRoast(e))
    /\ pc' = "present"
    /\ UNCHANGED <<env, file, now, issued, frame, tokens, current_time,
                   access_token, athlete, activities, prompt, fileOps, shown,
                   fileAtStart>>

\* ---- main: presentation (lines 232-269) ---------------------------------
\* lines 234-237: the bio fields as the page renders them
DisplayBio(a) ==
    [first_name |-> Get(a, "firstname", ""),
     last_name |-> Get(a, "lastname", ""),
     bio |-> Get(a, "bio", "No bio available."),
     city |-> Get(a, "city", "Unknown city"),
     country |-> Get(a, "country", "Unknown country"),
     sex |-> Get(a, "sex", "Not specified")]

BioSection(a) ==
    LET b == DisplayBio(a) IN
    << Subheader("Your Bio"),
       Write("**Name:** " \o b.first_name \o " " \o b.last_name),
       Write("**Gender:** " \o b.sex),
       Write("**Location:** " \o b.city \o ", " \o b.country),
       Write("**Bio Description:** " \o b.bio),
       Write("---") >>

\* the detail view cutting a description of exactly 200 characters too
DetailDescriptionAtLeast(activity) ==
    LET description == Get(activity, "description", "No description provided.")
        max_description_length == 200
    IN IF Len(description) >= max_description_length
         THEN SubSeq(description, 1, max_description_length) \o "..."
         ELSE description

\* lines 251-255: the description as the detail view renders it
DetailDescription(activity) ==
    LET description == Get(activity, "description", "No description provided.")
        max_description_length == 200
    IN IF Len(description) > max_description_length
         THEN SubSeq(description, 1, max_description_length) \o "..."
         ELSE description

\* lines 257-265: the detail view of activity idx (absent numeric fields read 0)
DetailActivity(idx, activity) ==
    << Write("**Activity " \o ToString(idx) \o ": "
                \o Get(activity, "name", "Unnamed Activity") \o "**"),
       Write("- **Date:** " \o Get(activity, "start_date_local", "Unknown Date")),
       Write("- **Type:** " \o Get(activity, "type", "Unknown")),
       Write("- **Distance:** 0.00 km"),
       Write("- **Moving Time:** 0.0 minutes"),
       Write("- **Average Speed:** 0.00 km/h"),
       Write("- **Elevation Gain:** 0.00 m"),
       Write("- **Description:** " \o DetailDescription(activity)),
       Write("---") >>

RECURSIVE DetailActivities(_, _)
DetailActivities(acts, n) ==
    IF n = 0 THEN <<>>
    ELSE DetailActivities(acts, n - 1) \o DetailActivity(n, acts[n])

\* lines 241-265: the checkbox and, when it is checked, the detail view
DetailSection(checked, acts) ==
    << [kind |-> "checkbox", text |-> "Show detailed activities with descriptions"] >>
    \o (IF checked
          THEN <<Subheader("Recent Activities")>> \o DetailActivities(acts, Len(acts))
          ELSE <<>>)

Present ==
    /\ pc = "present"
    /\ \E checked \in BOOLEAN :
         shown' = shown \o BioSection(athlete.d) \o DetailSection(checked, activities)
                    \o << Subheader("Your Personalized Roast"), Write(roast.s) >>
    /\ pc' = "done"
    /\ UNCHANGED <<env, file, now, issued, frame, tokens, current_time,
                   access_token, athlete, activities, prompt, roast, calls,
                   fileOps, fileAtStart>>

\* ---- the environment ----------------------------------------------------
\* the process is interrupted while save_tokens has the file open; an
\* interruption anywhere else leaves the disk as a finished run leaves it
Interrupt ==
    /\ pc \in {"save_open", "save_dump"}
    /\ pc' = "killed"
    /\ UNCHANGED <<env, file, now, issued, frame, tokens, current_time,
                   access_token, athlete, activities, prompt, roast, calls,
                   fileOps, shown, fileAtStart>>

\* time passes; the run reads the clock once (line 46), so only the time
\* that passes before that read can change what the run does
Tick ==
    /\ pc \notin Terminal
    /\ current_time = None
    /\ now < MaxTime
    /\ now' = now + 1
    /\ UNCHANGED <<env, file, issued, pc, frame, tokens, current_time,
                   access_token, athlete, activities, prompt, roast, calls,
                   fileOps, shown, fileAtStart>>

Next ==
    \/ Validate
    \/ MainStart
    \/ LoadTokens
    \/ ExchangeOk
    \/ ExchangeFail
    \/ SaveOpen
    \/ SaveDump
    \/ CheckExpiry
    \/ RefreshOk
    \/ RefreshFail
    \/ GetAthleteProfileOk
    \/ GetAthleteProfileFail
    \/ GetActivitiesOk
    \/ GetActivitiesFail
    \/ ConstructPrompt
    \/ GenerateRoastOk
    \/ GenerateRoastRaise
    \/ Present
    \/ Interrupt
    \/ Tick

Spec == Init /\ [][Next]_vars
\* ==== properties =========================================================
Indices == 1..Len(calls)
\* the token-endpoint calls of this run with the given grant type
TokenCalls(grant) == {i \in Indices : IsToken(calls[i]) /\ calls[i].grant_type = grant}
Failed(c) == c.status_code # 200
IsProfile(c) == c.endpoint = "athlete"
IsActivities(c) == c.endpoint = "athlete/activities"
IsCompletion(c) == c.endpoint = "chat/completions"
Shown(item) == \E i \in 1..Len(shown) : shown[i] = item
LastShown(item) == Len(shown) > 0 /\ shown[Len(shown)] = item

\* the token record get_access_token compares with the clock: the one read
\* from the token file, or else the one the code exchange returned
RecordInUse ==
    IF fileAtStart.exists THEN JsonLoad(fileAtStart.content) ELSE calls[1].json

ExpiredInUse == current_time # None /\ RecordInUse.expires_at < current_time.i

\* C1: when the token record in use has expires_at earlier than the current
\* time, a credential is returned only after exactly one refresh call, which
\* succeeded; the token file then holds the refreshed record and the
\* credential is the refreshed record's access_token, obtained with the
\* refresh token of the record in use.
C1_RefreshOnceBeforeReturn ==
    (ExpiredInUse /\ access_token # None) =>
        /\ Cardinality(TokenCalls("refresh_token")) = 1
        /\ \E i \in Indices :
             /\ IsRefresh(calls[i])
             /\ calls[i].status_code = 200
             /\ calls[i].sent = Num(RecordInUse.refresh_token)
             /\ file = FileOf(calls[i].json)
             /\ JsonLoad(file.content) = calls[i].json
             /\ access_token = Num(calls[i].json.access_token)

C1_Witness ==
    /\ ExpiredInUse
    /\ access_token # None
    /\ ~fileAtStart.exists

\* C2: a token-endpoint call (code exchange or refresh) that returns a
\* non-success status is the last call of the run: the run has stopped with
\* the raw error body displayed, no credential was returned, no profile,
\* activities or completion call follows, and the exchange was not repeated.
C2_AuthFailureHalts ==
    \A i \in Indices :
        (IsToken(calls[i]) /\ Failed(calls[i])) =>
            /\ i = Len(calls)
            /\ pc = "stopped"
            /\ access_token = None
            /\ TokenCalls(calls[i].grant_type) = {i}
            /\ \E j \in 1..Len(shown) :
                 /\ shown[j].kind = "error"
                 /\ shown[j].text \in
                      {"Error exchanging authorization code: " \o calls[i].text,
                       "Error refreshing access token: " \o calls[i].text}
            /\ ~ \E j \in Indices :
                   IsProfile(calls[j]) \/ IsActivities(calls[j]) \/ IsCompletion(calls[j])

C2_Witness ==
    /\ pc = "stopped"
    /\ Len(calls) = 2
    /\ IsExchange(calls[1])
    /\ IsRefresh(calls[2])
    /\ Failed(calls[2])

\* C3: with a required configuration value absent, the run shows the error
\* and stops: it makes no network call, does not touch the token file and
\* executes no later stage.
C3_MissingConfigHalts ==
    (env # ConfigKeys) =>
        /\ pc \in {"start", "stopped"}
        /\ calls = <<>>
        /\ fileOps = <<>>
        /\ file = fileAtStart
        /\ access_token = None /\ athlete = None /\ prompt = None /\ roast = None
        /\ pc = "stopped" =>
             shown = <<Error("Please ensure all credentials are set in the .env file.")>>

C3_Witness ==
    /\ pc = "stopped"
    /\ env = ConfigKeys \ {"OPENAI_API_KEY"}

\* C4: when the completion call raises, generate_roast returns the string
\* "Error generating roast: " followed by the error detail; the run neither
\* stops nor raises, and when it is done the bio and the roast section have
\* been displayed, the roast section showing that string.
C4_RoastErrorIsDisplayed ==
    \A i \in Indices :
        (IsCompletion(calls[i]) /\ Failed(calls[i])) =>
            /\ roast = Str("Error generating roast: " \o calls[i].text)
            /\ pc \in {"present", "done"}
            /\ pc = "done" =>
                 /\ Shown(Subheader("Your Bio"))
                 /\ Len(shown) >= 2
                 /\ shown[Len(shown) - 1] = Subheader("Your Personalized Roast")
                 /\ shown[Len(shown)] = Write("Error generating roast: " \o calls[i].text)

C4_Witness ==
    /\ pc = "done"
    /\ \E i \in Indices : IsCompletion(calls[i]) /\ Failed(calls[i])

\* the activities fetch succeeded with an empty sequence
EmptyActivitiesFetched ==
    \E i \in Indices :
        /\ IsActivities(calls[i])
        /\ calls[i].status_code = 200
        /\ calls[i].json.l = <<>>

\* C5 as stated: after a successful profile fetch and an activities fetch
\* that yields an empty sequence the run completes with the profile shown
\* and the "No activities found." message displayed.
C5_Original ==
    EmptyActivitiesFetched =>
        /\ pc = "done"
        /\ Shown(Subheader("Your Bio"))
        /\ LastShown(Write("No activities found."))

\* C5 as amended: after a successful profile fetch and an activities fetch
\* that yields an empty sequence the run completes (it neither stops nor
\* raises) with the "No activities found." message displayed; the profile
\* is not shown, the page holds the title, the introduction and the message.
C5_EmptyActivitiesCompletes ==
    EmptyActivitiesFetched =>
        /\ pc = "done"
        /\ TruthyDict(athlete)
        /\ shown = << Title("Roast My Strava"),
                      Write("This app fetches your Strava bio and recent activities to provide an AI-generated roast."),
                      Write("No activities found.") >>
        /\ prompt = None
        /\ ~ \E j \in Indices : IsCompletion(calls[j])

C5_Witness ==
    /\ EmptyActivitiesFetched
    /\ pc = "done"
    /\ OptionalFields \subseteq DOMAIN athlete.d

\* C6: a non-success response of the profile fetch or of the activities
\* fetch is recoverable: it is the last call of the run, the error body is
\* displayed, the result is None (profile) or the empty list (activities),
\* no prompt is built, no completion call is made, and the run is done with
\* the "nothing found" message as the last thing on the page.
C6_FetchFailureRecovers ==
    \A i \in Indices :
        ((IsProfile(calls[i]) \/ IsActivities(calls[i])) /\ Failed(calls[i])) =>
            /\ i = Len(calls)
            /\ pc = "done"
            /\ prompt = None
            /\ roast = None
            /\ IF IsProfile(calls[i])
                 THEN /\ athlete = None
                      /\ Shown(Error("Error fetching athlete profile: " \o calls[i].text))
                      /\ LastShown(Write("Could not retrieve athlete profile."))
                 ELSE /\ activities = <<>>
                      /\ Shown(Error("Error fetching activities: " \o calls[i].text))
                      /\ LastShown(Write("No activities found."))

C6_Witness ==
    /\ pc = "done"
    /\ Len(calls) > 0
    /\ IsActivities(calls[Len(calls)])
    /\ Failed(calls[Len(calls)])

\* C7: once get_access_token has looked for the token file, the code
\* exchange has been made iff no token file was present; with a token file
\* the code is never sent, a refresh sends the stored refresh token, and
\* when the stored record is unexpired the credential returned is the
\* stored access_token and no token-endpoint call was made.
C7_ExchangeIffNoTokenFile ==
    /\ fileOps # <<>> => ((\E i \in Indices : IsExchange(calls[i])) <=> ~fileAtStart.exists)
    /\ fileAtStart.exists =>
         /\ \A i \in Indices : ~IsExchange(calls[i])
         /\ \A i \in Indices : calls[i].sent # Str("AUTHORIZATION_CODE")
         /\ \A i \in Indices :
              IsRefresh(calls[i]) =>
                 calls[i].sent = Num(JsonLoad(fileAtStart.content).refresh_token)
         /\ (access_token # None /\ ~ExpiredInUse) =>
              /\ \A i \in Indices : ~IsToken(calls[i])
              /\ access_token = Num(JsonLoad(fileAtStart.content).access_token)
              /\ file = fileAtStart

C7_Witness ==
    /\ fileAtStart.exists
    /\ access_token # None
    /\ ~ExpiredInUse
    /\ current_time.i > 0

\* the text after the label of a rendered line
Value(line, label) == SubSeq(line, Len(label) + 1, Len(line))
Blank(text) == text \in {"", " ", ", "}

\* the bio of a profile without optional fields has been presented
PresentedWithoutOptionalFields ==
    /\ pc = "done"
    /\ roast # None
    /\ OptionalFields \cap DOMAIN athlete.d = {}

\* C8 as stated: for a profile with all optional fields absent, the prompt
\* and the page render the same value for the name, the gender, the
\* location and the bio description, and none of these values is blank.
C8_Original ==
    PresentedWithoutOptionalFields =>
        LET promptName == Value(prompt.l[5], "- Name: ")
            promptSex == Value(prompt.l[6], "- Gender: ")
            promptLocation == Value(prompt.l[7], "- Location: ")
            promptBio == Value(prompt.l[8], "- Bio Description: ")
            pageName == Value(shown[4].text, "**Name:** ")
            pageSex == Value(shown[5].text, "**Gender:** ")
            pageLocation == Value(shown[6].text, "**Location:** ")
            pageBio == Value(shown[7].text, "**Bio Description:** ")
        IN /\ shown[3] = Subheader("Your Bio")
           /\ pageName = promptName
           /\ pageSex = promptSex
           /\ pageLocation = promptLocation
           /\ pageBio = promptBio
           /\ \A v \in {promptName, promptSex, promptLocation, promptBio,
                        pageName, pageSex, pageLocation, pageBio} : ~Blank(v)

\* the description a rendering must show for an activity
Described(activity) ==
    IF "description" \in DOMAIN activity
      THEN activity["description"] ELSE "No description provided."

\* r is d cut to its first 200 characters and followed by "..." when d is
\* longer than 200 characters, and d itself otherwise
CutTo200(r, d) ==
    IF Len(d) <= 200
      THEN r = d
      ELSE /\ Len(r) = 203
           /\ SubSeq(r, 1, 200) = SubSeq(d, 1, 200)
           /\ SubSeq(r, 201, 203) = "..."

DetailShown == Len(shown) >= 10 /\ shown[10] = Subheader("Recent Activities")

\* C9: for every activity, the description line of the prompt and, when the
\* detail view is shown, the description line of the detail view carry the
\* same text: the description cut to 200 characters plus "..." when longer
\* than 200, unchanged otherwise; the activity records stay as fetched.
C9_DescriptionTruncation ==
    prompt # None =>
        /\ \A idx \in 1..Len(activities) :
             LET inPrompt == Value(prompt.l[10 + 10 * idx], "- Description: ")
             IN /\ SubSeq(prompt.l[10 + 10 * idx], 1, 15) = "- Description: "
                /\ CutTo200(inPrompt, Described(activities[idx]))
                /\ (pc = "done" /\ DetailShown) =>
                     /\ SubSeq(shown[9 + 9 * idx].text, 1, 19) = "- **Description:** "
                     /\ Value(shown[9 + 9 * idx].text, "- **Description:** ") = inPrompt
        /\ \E i \in Indices : IsActivities(calls[i]) /\ calls[i].json.l = activities

C9_Witness ==
    /\ pc = "done"
    /\ DetailShown
    /\ \E idx \in 1..Len(activities) :
         /\ Len(Described(activities[idx])) > 200
         /\ Len(Value(shown[9 + 9 * idx].text, "- **Description:** ")) = 203

\* C10 as stated: at every point of a run the token file is as it was when
\* the run began or holds, complete, a token record that the token endpoint
\* issued in this run, never an empty or partial record; and after a failed
\* exchange or refresh the file is as it was before that call.
C10_Original ==
    /\ \/ file = fileAtStart
       \/ /\ JsonValid(file.content)
          /\ \E i \in Indices :
               /\ IsToken(calls[i])
               /\ calls[i].status_code = 200
               /\ file = FileOf(calls[i].json)
    /\ \A i \in Indices :
         (IsToken(calls[i]) /\ Failed(calls[i])) =>
            file = (IF i = 1 THEN fileAtStart ELSE FileOf(calls[1].json))
====
